---- MODULE Spec2Model ----
(***************************************************************************)
(* Factory analysis workflow (challenge-4/agent-workflow/app): the graph   *)
(* built and run by run_factory_workflow, the HTTP handler analyze_machine, *)
(* and the A2A server executors wrapping the challenge-3 agents.           *)
(*                                                                         *)
(* Texts that the code inspects character by character are sequences of    *)
(* one-character strings; f-strings are sequences of their segments.       *)
(***************************************************************************)
EXTENDS Naturals, Sequences, FiniteSets, TLC

VARIABLES
    env,         \* os.environ as seen by run_factory_workflow
    mock,        \* the agents' replies: machine id -> node -> reply
    request,     \* per run: the AnalyzeRequest body
    pc,          \* per run: position in analyze_machine / run_factory_workflow
    builder,     \* per run: the WorkflowBuilder
    workflow,    \* per run: the result of builder.build()
    pending,     \* per run: messages waiting for delivery
    outputs,     \* per run: the outputs yielded so far
    invoked,     \* per run: the executors invoked, in order, with their input
    discovery,   \* per run: what get_a2a_agent did about the agent card
    credential,  \* per run: DefaultAzureCredential
    raised,      \* per run: the exception run_factory_workflow raised, "" if none
    http,        \* per run: the response of analyze_machine
    a2a          \* per run: the agent card requests made and the A2A agent in use

wfVars == <<env, mock, request, pc, builder, workflow, pending, outputs,
            invoked, discovery, credential, raised, http, a2a>>

VARIABLES
    executor,       \* the A2A executor whose execute is called
    os_environ,     \* the environment variables execute reads
    message,        \* context.message
    ex_pc,          \* position in execute
    input_text,     \* execute's local variables
    work_order_id,
    work_order,
    pending_status, \* the status update_work_order_status is writing
    exception,      \* the exception in flight, <<>> if none
    response_text,
    event_queue,    \* the events enqueued on the EventQueue
    uuids,          \* the uuids handed out so far
    db,             \* the Cosmos DB containers
    calls,          \* the Cosmos DB and agent calls execute has made
    cancel_requested \* has the executor's cancel been called

exVars == <<executor, os_environ, message, ex_pc, input_text, work_order_id, work_order,
            pending_status,
            exception, response_text, event_queue, uuids, db, calls, cancel_requested>>

VARIABLES
    upd,            \* per caller: the update_work_order_status call in progress
    chat_history,   \* the ChatHistories container: machine id -> historyJson
    sched,          \* per caller: the predict_schedule call in progress
    chat_log        \* the interactions saved so far, for the properties

svcVars == <<upd, chat_history, sched, chat_log>>

vars == <<wfVars, exVars, svcVars>>

Runs == {1, 2}

----------------------------------------------------------------------------
(* Texts *)

T_CRITICAL == <<"C","R","I","T","I","C","A","L"," ","f","a","i","l","u","r","e">>
T_OK       == <<"s","t","a","t","u","s",":"," ","o","k">>
T_ALERT    == <<"A","L","E","R","T",":"," ","t","e","m","p","e","r","a","t","u","r","e",
                " ","e","x","c","e","e","d","s"," ","t","h","r","e","s","h","o","l","d">>
T_HIGH     == <<"t","e","m","p"," ","i","s"," ","H","i","g","h">>
T_WARN     == <<"n","o"," ","w","a","r","n","s">>
T_EMPTY    == <<>>
T_DIAG     == <<"b","e","a","r","i","n","g"," ","w","e","a","r">>
T_PLAN     == <<"r","e","p","l","a","c","e"," ","b","e","a","r","i","n","g">>

UpperCase == <<"A","B","C","D","E","F","G","H","I","J","K","L","M",
               "N","O","P","Q","R","S","T","U","V","W","X","Y","Z">>
LowerCase == <<"a","b","c","d","e","f","g","h","i","j","k","l","m",
               "n","o","p","q","r","s","t","u","v","w","x","y","z">>

\* str.lower() on one character
lower_char(c) ==
    IF \E i \in 1..Len(UpperCase) : UpperCase[i] = c
    THEN LowerCase[CHOOSE i \in 1..Len(UpperCase) : UpperCase[i] = c]
    ELSE c

\* str.lower()
lower(text) == [i \in 1..Len(text) |-> lower_char(text[i])]

\* the Python operator `sub in text` on strings
contains(text, sub) ==
    \E i \in 0..Len(text) :
        /\ i + Len(sub) <= Len(text)
        /\ \A j \in 1..Len(sub) : text[i + j] = sub[j]

----------------------------------------------------------------------------
(* Messages travelling along the edges of the workflow *)

\* the dict that workflow.run() hands to the start executor
RunInput(req) == [type |-> "dict", machine_id |-> req.machine_id, telemetry |-> req.telemetry]

\* a plain str sent with ctx.send_message
StrMessage(s) == [type |-> "str", value |-> s]

\* what an agent registered with register_agent sends downstream
AgentExecutorResponse(t) ==
    [type |-> "AgentExecutorResponse", agent_run_response |-> [text |-> t]]

\* what an agent registered with output_response=True yields as an output
AgentRunResponse(node, t) == [executor |-> node, text |-> t]

hasattr(obj, name) == name \in DOMAIN obj

\* str(obj)
str(obj) ==
    IF hasattr(obj, "value") THEN obj.value ELSE <<"<", "o", "b", "j", "e", "c", "t", ">">>

extract_text_from_message(msg) ==
    IF hasattr(msg, "agent_run_response") /\ hasattr(msg.agent_run_response, "text")
    THEN msg.agent_run_response.text
    ELSE IF hasattr(msg, "text") /\ msg.text # <<>>
    THEN msg.text
    ELSE IF hasattr(msg, "response") /\ hasattr(msg.response, "text") /\ msg.response.text # <<>>
    THEN msg.response.text
    ELSE IF hasattr(msg, "params")
    THEN IF hasattr(msg.params, "text") /\ msg.params.text # <<>>
         THEN msg.params.text
         ELSE str(msg.params)
    ELSE str(msg)

\* RequestProcessor.process: the prompt sent to the Anomaly Agent
process(data) ==
    <<"Classify the following anomalies for machine ", data.machine_id, ": ", data.telemetry>>

keywords == << <<"c","r","i","t","i","c","a","l">>,
               <<"w","a","r","n","i","n","g">>,
               <<"h","i","g","h">>,
               <<"a","l","e","r","t">> >>

\* the condition without text.lower(): the keywords are matched in lower case only
diagnosis_condition_case_sensitive(msg) ==
    LET text == extract_text_from_message(msg)
    IN  \E k \in 1..Len(keywords) : contains(text, keywords[k])

diagnosis_condition(msg) ==
    LET text == extract_text_from_message(msg)
    IN  \E k \in 1..Len(keywords) : contains(lower(text), keywords[k])

----------------------------------------------------------------------------
(* WorkflowBuilder *)

NoStart == "<unset>"

WorkflowBuilder == [executors |-> <<>>, output_response |-> {}, edges |-> <<>>, start |-> NoStart]

NotBuilt == [built |-> FALSE, executors |-> <<>>, output_response |-> {}, edges |-> <<>>,
             start |-> NoStart]

register_executor(b, name) == [b EXCEPT !.executors = Append(@, name)]

register_agent(b, name, out) ==
    [b EXCEPT !.executors = Append(@, name),
              !.output_response = IF out THEN @ \cup {name} ELSE @]

set_start_executor(b, name) == [b EXCEPT !.start = name]

add_edge(b, from, to, condition) ==
    [b EXCEPT !.edges = Append(@, [from |-> from, to |-> to, condition |-> condition])]

\* the registrations with output_response left out for FaultAgent
register_local_no_output(b) ==
    register_agent(
        register_agent(register_executor(b, "RequestProcessor"), "AnomalyAgent", TRUE),
        "FaultAgent", FALSE)

\* the three registrations every run makes
register_local(b) ==
    register_agent(
        register_agent(register_executor(b, "RequestProcessor"), "AnomalyAgent", TRUE),
        "FaultAgent", TRUE)

\* the edges with the one to RepairPlannerAgent added whatever the URL
add_edges_always(b, repair_planner_url) ==
    add_edge(
        add_edge(
            add_edge(set_start_executor(b, "RequestProcessor"),
                     "RequestProcessor", "AnomalyAgent", "none"),
            "AnomalyAgent", "FaultAgent", "diagnosis_condition"),
        "FaultAgent", "RepairPlannerAgent", "none")

\* the edges with the first add_edge call made twice
add_edges_twice(b, repair_planner_url) ==
    LET b1 == set_start_executor(b, "RequestProcessor")
        b2 == add_edge(b1, "RequestProcessor", "AnomalyAgent", "none")
        b3 == add_edge(b2, "RequestProcessor", "AnomalyAgent", "none")
        b4 == add_edge(b3, "AnomalyAgent", "FaultAgent", "diagnosis_condition")
    IN  IF repair_planner_url
        THEN add_edge(b4, "FaultAgent", "RepairPlannerAgent", "none")
        ELSE b4

\* the edges with the repair planner after the classifier instead of the diagnosis
add_edges_planner_after_anomaly(b, repair_planner_url) ==
    LET b1 == set_start_executor(b, "RequestProcessor")
        b2 == add_edge(b1, "RequestProcessor", "AnomalyAgent", "none")
        b3 == add_edge(b2, "AnomalyAgent", "FaultAgent", "diagnosis_condition")
    IN  IF repair_planner_url
        THEN add_edge(b3, "AnomalyAgent", "RepairPlannerAgent", "none")
        ELSE b3

\* the start executor and the edges, the last one only with a repair planner URL
add_edges(b, repair_planner_url) ==
    LET b1 == set_start_executor(b, "RequestProcessor")
        b2 == add_edge(b1, "RequestProcessor", "AnomalyAgent", "none")
        b3 == add_edge(b2, "AnomalyAgent", "FaultAgent", "diagnosis_condition")
    IN  IF repair_planner_url
        THEN add_edge(b3, "FaultAgent", "RepairPlannerAgent", "none")
        ELSE b3

Range(seq) == {seq[i] : i \in 1..Len(seq)}

\* build(): every edge names registered executors and there is a start executor
valid_graph(b) ==
    /\ b.start \in Range(b.executors)
    /\ \A i \in 1..Len(b.edges) :
          b.edges[i].from \in Range(b.executors) /\ b.edges[i].to \in Range(b.executors)

condition_holds(edge, msg) ==
    \/ edge.condition = "none"
    \/ edge.condition = "diagnosis_condition" /\ diagnosis_condition(msg)

\* the deliveries a message sent by `node` causes: one per satisfied outgoing
\* edge, in the order the edges were added
deliveries(wf, node, msg) ==
    LET satisfied(e) == e.from = node /\ condition_holds(e, msg)
        es == SelectSeq(wf.edges, satisfied)
    IN  [i \in 1..Len(es) |-> [node |-> es[i].to, msg |-> msg]]

\* the results built by inserting each text at the front
serialized_outputs_reversed(outs) ==
    [i \in 1..Len(outs) |-> outs[Len(outs) + 1 - i].text]

\* analyze_machine: one entry of "results" per output
serialized_outputs(outs) ==
    [i \in 1..Len(outs) |-> IF hasattr(outs[i], "text") THEN outs[i].text ELSE str(outs[i])]

----------------------------------------------------------------------------
(* The A2A executors: texts and helpers *)

I_NONE  == <<"h","e","l","l","o">>
I_PLAIN == <<"p","l","a","n"," ","w","o","-","2","0","2","4","-","a","b","1"," ","x">>
I_UPPER == <<"W","O","-","2","0","2","4","-","A","B","1">>
WO_468  == <<"w","o","-","2","0","2","4","-","4","6","8">>
WO_AB1  == <<"w","o","-","2","0","2","4","-","a","b","1">>

Digits == {"0","1","2","3","4","5","6","7","8","9"}

HexChars == Digits \cup {"a","b","c","d","e","f","A","B","C","D","E","F"}

\* does r'wo-\d{4}-[a-f0-9]+' with re.IGNORECASE match at position i
match_at(text, i) ==
    /\ i + 8 <= Len(text)
    /\ lower_char(text[i]) = "w"
    /\ lower_char(text[i + 1]) = "o"
    /\ text[i + 2] = "-"
    /\ \A k \in 3..6 : text[i + k] \in Digits
    /\ text[i + 7] = "-"
    /\ text[i + 8] \in HexChars

\* the last position of the greedy match that starts at i
match_end(text, i) ==
    CHOOSE e \in (i + 8)..Len(text) :
        /\ \A k \in (i + 8)..e : text[k] \in HexChars
        /\ e = Len(text) \/ text[e + 1] \notin HexChars

\* extract_work_order_id returning the last match of the text
extract_work_order_id_last(text) ==
    IF \E i \in 1..Len(text) : match_at(text, i)
    THEN LET i == CHOOSE i \in 1..Len(text) :
                     match_at(text, i) /\ \A j \in (i + 1)..Len(text) : ~match_at(text, j)
         IN  SubSeq(text, i, match_end(text, i))
    ELSE <<>>

\* extract_work_order_id; None is the empty text
extract_work_order_id(text) ==
    IF \E i \in 1..Len(text) : match_at(text, i)
    THEN LET i == CHOOSE i \in 1..Len(text) :
                     match_at(text, i) /\ \A j \in 1..(i - 1) : ~match_at(text, j)
         IN  SubSeq(text, i, match_end(text, i))
    ELSE <<>>

TextPart(t) == [root |-> [kind |-> "text", text |-> t]]
FilePart    == [root |-> [kind |-> "file", file |-> "report.pdf"]]

\* the text of the first part that has one
message_text_first(msg) ==
    IF msg.is_none \/ msg.parts = <<>> THEN <<>>
    ELSE LET textual == {i \in 1..Len(msg.parts) :
                            hasattr(msg.parts[i], "root") /\ hasattr(msg.parts[i].root, "text")}
         IN  IF textual = {} THEN <<>>
             ELSE msg.parts[CHOOSE i \in textual : \A j \in textual : i <= j].root.text

\* the text execute takes from context.message
message_text(msg) ==
    IF msg.is_none \/ msg.parts = <<>> THEN <<>>
    ELSE LET textual == {i \in 1..Len(msg.parts) :
                            hasattr(msg.parts[i], "root") /\ hasattr(msg.parts[i].root, "text")}
         IN  IF textual = {} THEN <<>>
             ELSE msg.parts[CHOOSE i \in textual : \A j \in textual : j <= i].root.text

AgentName(ex) ==
    IF ex = "MaintenanceSchedulerExecutor" THEN "MaintenanceSchedulerAgent" ELSE "PartsOrderingAgent"

\* the check of the environment without the key
env_complete_without_key(e) ==
    /\ e.COSMOS_ENDPOINT
    /\ e.COSMOS_DATABASE_NAME \/ e.COSMOS_DATABASE
    /\ e.AI_FOUNDRY_PROJECT_ENDPOINT \/ e.AZURE_AI_PROJECT_ENDPOINT

\* all([cosmos_endpoint, cosmos_key, database_name, project_endpoint])
env_complete(e) ==
    /\ e.COSMOS_ENDPOINT
    /\ e.COSMOS_KEY
    /\ e.COSMOS_DATABASE_NAME \/ e.COSMOS_DATABASE
    /\ e.AI_FOUNDRY_PROJECT_ENDPOINT \/ e.AZURE_AI_PROJECT_ENDPOINT

missing_env_text(ex) ==
    <<"Error", ": Missing required environment variables for ", AgentName(ex)>>

\* the text of the except branch without the exception
error_text_generic(ex, e) ==
    <<"Error", " processing",
      IF ex = "MaintenanceSchedulerExecutor"
      THEN " maintenance schedule request" ELSE " parts order request">>

\* the text of the except branch: f"Error processing ... request: {str(e)}"
error_text(ex, e) ==
    <<"Error", " processing",
      IF ex = "MaintenanceSchedulerExecutor"
      THEN " maintenance schedule request: " ELSE " parts order request: ">> \o e

schedule_text(schedule) ==
    <<"Maintenance Schedule Created", ":\n- Schedule ID: ", schedule.id, "\n- Machine: ",
      schedule.machine_id>>

order_text(order) ==
    <<"Parts Order Generated", ":\n- Order ID: ", order.id, "\n- Work Order: ">>
        \o order.work_order_id

all_available_text ==
    <<"All required parts are available in stock", ". No parts order needed.">>

no_suppliers_text == <<"Error", ": No suppliers found for required parts.">>

\* the id looked up: the one in the text, or the fallback
lookup_id(text) ==
    LET found == IF text # <<>> THEN extract_work_order_id(text) ELSE <<>>
    IN  IF found = <<>> THEN WO_468 ELSE found

\* maintenance_scheduler_agent.main: sys.argv[1] if len(sys.argv) > 1 else "wo-2024-468"
maintenance_scheduler_main_work_order_id(argv) ==
    IF Len(argv) > 1 THEN argv[2] ELSE <<"w","o","-","2","0","2","4","-","4","6","8">>

\* parts_ordering_agent.main: sys.argv[1] if len(sys.argv) > 1 else "2024-468"
parts_ordering_main_work_order_id(argv) ==
    IF Len(argv) > 1 THEN argv[2] ELSE <<"2","0","2","4","-","4","6","8">>

not_found(id) == <<"Work order ">> \o id \o <<" not found">>

cosmos_error == <<"Cosmos DB request failed">>

agent_error == <<"agent returned no valid JSON">>

\* the response Message: a new message id, role "agent", one TextPart
response_message(id, text) == [messageId |-> id, role |-> "agent", parts |-> <<TextPart(text)>>]

\* get_suppliers_for_parts: the suppliers of the parts, the mock suppliers if none
get_suppliers_for_parts(suppliers, part_numbers) ==
    LET supplies(sup) == \E n \in Range(part_numbers) : n \in sup.parts
        results == SelectSeq(suppliers, supplies)
    IN  IF results # <<>> THEN results
        ELSE <<[id |-> "supplier-001", parts |-> {}], [id |-> "supplier-002", parts |-> {}]>>

----------------------------------------------------------------------------
(* The machine chat history: texts and helpers *)

MaxInteractions == 6

MaxRaces == 2

HistoryLimit == 10

ContextMessages == 5

\* json.dumps(messages)
json_dumps(messages) == [json |-> messages]

\* can json.loads read the text
is_json(text) == "json" \in DOMAIN text

\* json.loads(text)
json_loads(text) == text.json

\* a historyJson that json.loads rejects
Corrupt == [text |-> "{not json"]

\* messages[-n:]
last(messages, n) ==
    IF Len(messages) <= n THEN messages
    ELSE SubSeq(messages, Len(messages) - n + 1, Len(messages))

\* the context and the response of task t's k-th interaction
user_message(t, k) == [role |-> "user", content |-> <<"context", t, k>>]

assistant_message(t, k) == [role |-> "assistant", content |-> <<"response", t, k>>]

\* the history with the interaction appended and nothing cut off
interaction_history_unbounded(messages, user, assistant) ==
    Append(Append(messages, user), assistant)

\* _save_interaction_history: the interaction is appended, the last 10 are kept
interaction_history(messages, user, assistant) ==
    last(Append(Append(messages, user), assistant), HistoryLimit)

----------------------------------------------------------------------------
(* The A2A executors: execute, one action per call that can fail *)

MaxParts == 2

MaxUuid == 3

Executors == {"MaintenanceSchedulerExecutor", "PartsOrderingExecutor"}

InputTexts == {<<>>, I_NONE, I_PLAIN, I_UPPER}

PartValues == {TextPart(t) : t \in InputTexts} \cup {FilePart}

Messages ==
    {[is_none |-> TRUE, parts |-> <<>>]} \cup
    {[is_none |-> FALSE, parts |-> ps] :
        ps \in UNION {[1..n -> PartValues] : n \in 0..MaxParts}}

\* Python's None
None == [is_none |-> TRUE]

Part(number, available) ==
    [partNumber |-> number, partName |-> "bearing", quantity |-> 2, isAvailable |-> available]

\* a createdAt text in ISO format, with "Z" or with an offset, naming an instant
IsoText(suffix, instant) == [iso |-> suffix, instant |-> instant]

WorkOrderItem(id, machine, parts) ==
    [id |-> id, machineId |-> machine, faultType |-> "bearing_wear", priority |-> "high",
     assignedTechnician |-> "tech-001", requiredParts |-> parts, estimatedDuration |-> 120,
     createdAt |-> IsoText("Z", 1), status |-> "Created"]

\* dict.get(key, default)
get(item, key, default) == IF key \in DOMAIN item THEN item[key] ELSE default

\* _parse_datetime: the datetime an ISO text names, None for no text or a text
\* that is not in ISO format
\* ("Z" is replaced by "+00:00" before datetime.fromisoformat)
parse_datetime(dt_value) ==
    IF "iso" \in DOMAIN dt_value /\ dt_value.iso \in {"Z", "+00:00"}
    THEN [instant |-> dt_value.instant, tzinfo |-> "+00:00"]
    ELSE None

\* datetime.isoformat()
isoformat(dt) == IsoText(dt.tzinfo, dt.instant)

\* the update that writes the work order back without its parts
item_of_work_order_no_parts(w, status) ==
    [id |-> w.id, machineId |-> w.machine_id, faultType |-> w.fault_type,
     priority |-> w.priority, assignedTechnician |-> w.assigned_technician,
     requiredParts |-> <<>>,
     estimatedDuration |-> w.estimated_duration,
     createdAt |-> IF w.created_at # None THEN isoformat(w.created_at) ELSE None,
     status |-> status]

\* update_work_order_status: the item built from the WorkOrder and the new status
item_of_work_order(w, status) ==
    [id |-> w.id, machineId |-> w.machine_id, faultType |-> w.fault_type,
     priority |-> w.priority, assignedTechnician |-> w.assigned_technician,
     requiredParts |->
        [i \in 1..Len(w.required_parts) |->
            [partNumber |-> w.required_parts[i].part_number,
             partName |-> w.required_parts[i].part_name,
             quantity |-> w.required_parts[i].quantity,
             isAvailable |-> w.required_parts[i].is_available]],
     estimatedDuration |-> w.estimated_duration,
     createdAt |-> IF w.created_at # None THEN isoformat(w.created_at) ELSE None,
     status |-> status]

\* get_work_order: the WorkOrder built from an item of the container
work_order_of_item(item) ==
    [id |-> get(item, "id", <<>>),
     machine_id |-> get(item, "machineId", ""),
     fault_type |-> get(item, "faultType", ""),
     priority |-> get(item, "priority", ""),
     assigned_technician |-> get(item, "assignedTechnician", ""),
     required_parts |->
        LET ps == get(item, "requiredParts", <<>>)
        IN  [i \in 1..Len(ps) |->
                [part_number |-> get(ps[i], "partNumber", ""),
                 part_name |-> get(ps[i], "partName", ""),
                 quantity |-> get(ps[i], "quantity", 0),
                 is_available |-> get(ps[i], "isAvailable", FALSE)]],
     estimated_duration |-> get(item, "estimatedDuration", 0),
     created_at |-> parse_datetime(get(item, "createdAt", None)),
     status |-> get(item, "status", "Created")]

\* the items delete_item(item=id, partition_key=status) removes; the container is
\* partitioned by status
delete_item(container, id, partition_key) ==
    {item \in container : item.id = id /\ get(item, "status", "") = partition_key}

\* upsert_item(body=item): the item replaces the one with its id in its partition
upsert_item(container, item) ==
    (container \ delete_item(container, item.id, item.status)) \cup {item}

\* the contents of the WorkOrders container before the call
WorkOrderSets ==
    { {},
      {WorkOrderItem(WO_468, "machine-001", <<Part("P-1", TRUE)>>)},
      {WorkOrderItem(WO_468, "machine-001", <<Part("P-1", TRUE), Part("P-2", FALSE)>>)},
      {WorkOrderItem(WO_468, "machine-001", <<Part("P-2", FALSE)>>),
       WorkOrderItem(WO_AB1, "machine-007", <<>>)} }

SupplierSets == { <<>>, <<[id |-> "supplier-100", parts |-> {"P-2"}]>> }

EnvNames == {"COSMOS_ENDPOINT", "COSMOS_KEY", "COSMOS_DATABASE_NAME", "COSMOS_DATABASE",
             "AI_FOUNDRY_PROJECT_ENDPOINT", "AZURE_AI_PROJECT_ENDPOINT"}

NoWorkOrder == [id |-> <<>>]

ExecIdle ==
    /\ executor = "none"
    /\ os_environ = [n \in EnvNames |-> FALSE]
    /\ message = [is_none |-> TRUE, parts |-> <<>>]
    /\ ex_pc = "idle"
    /\ input_text = <<>>
    /\ work_order_id = <<>>
    /\ work_order = NoWorkOrder
    /\ pending_status = ""
    /\ exception = <<>>
    /\ response_text = <<>>
    /\ event_queue = <<>>
    /\ uuids = {}
    /\ db = [WorkOrders |-> {}, Suppliers |-> <<>>, PartsOrders |-> {}, MaintenanceSchedules |-> {}]
    /\ calls = {}
    /\ cancel_requested = FALSE

\* the environments execute is started in: everything set, nothing set, the
\* second names of the database and the endpoint only, and one value missing
Environments ==
    { [n \in EnvNames |-> TRUE],
      [n \in EnvNames |-> FALSE],
      [n \in EnvNames |-> n \notin {"COSMOS_DATABASE_NAME", "AI_FOUNDRY_PROJECT_ENDPOINT"}],
      [n \in EnvNames |-> n # "COSMOS_ENDPOINT"],
      [n \in EnvNames |-> n # "COSMOS_KEY"],
      [n \in EnvNames |-> n \notin {"COSMOS_DATABASE_NAME", "COSMOS_DATABASE"}],
      [n \in EnvNames |-> n \notin {"AI_FOUNDRY_PROJECT_ENDPOINT", "AZURE_AI_PROJECT_ENDPOINT"}] }

ExecInit ==
    /\ executor \in Executors
    /\ os_environ \in Environments
    /\ message \in Messages
    /\ ex_pc = "start"
    /\ input_text = <<>>
    /\ work_order_id = <<>>
    /\ work_order = NoWorkOrder
    /\ pending_status = ""
    /\ exception = <<>>
    /\ response_text = <<>>
    /\ event_queue = <<>>
    /\ uuids = {1}
    /\ \E w \in WorkOrderSets, sup \in SupplierSets :
          db = [WorkOrders |-> w, Suppliers |-> sup, PartsOrders |-> {},
                MaintenanceSchedules |-> {}]
    /\ calls = {}
    /\ cancel_requested = FALSE

\* an exception is raised inside execute's try block
Throw(e) ==
    /\ exception' = e
    /\ ex_pc' = "except"

\* the text of the last part that has one
extract_input ==
    /\ ex_pc = "start"
    /\ input_text' = message_text(message)
    /\ ex_pc' = "getenv"
    /\ UNCHANGED <<wfVars, svcVars>>
    /\ UNCHANGED <<work_order_id, cancel_requested, executor, os_environ, message, work_order, pending_status, exception,
                   response_text, event_queue, uuids, db, calls>>

\* the environment is read; with a variable missing the answer is the error text
check_env ==
    /\ ex_pc = "getenv"
    /\ IF ~env_complete(os_environ)
       THEN /\ response_text' = missing_env_text(executor)
            /\ ex_pc' = "respond"
       ELSE /\ ex_pc' = "init"
            /\ UNCHANGED response_text
    /\ UNCHANGED <<wfVars, svcVars>>
    /\ UNCHANGED <<work_order_id, cancel_requested, executor, os_environ, message, input_text, work_order, pending_status,
                   exception, event_queue, uuids, db, calls>>

\* CosmosDbService(...) and the agent are constructed
init_services ==
    /\ ex_pc = "init"
    /\ calls' = calls \cup {"CosmosClient"}
    /\ \E ok \in BOOLEAN :
          IF ok THEN ex_pc' = "get_work_order" /\ UNCHANGED exception
          ELSE Throw(cosmos_error)
    /\ UNCHANGED <<wfVars, svcVars>>
    /\ UNCHANGED <<work_order_id, cancel_requested, executor, os_environ, message, input_text, work_order, pending_status,
                   response_text, event_queue, uuids, db>>

\* the items of the container with that id
query_work_orders(container, id) == {item \in container : item.id = id}

\* cosmos_service.get_work_order(work_order_id)
get_work_order ==
    /\ ex_pc = "get_work_order"
    /\ calls' = calls \cup {"get_work_order"}
    /\ work_order_id' = lookup_id(input_text)
    /\ LET id == work_order_id'
           items == query_work_orders(db.WorkOrders, id)
       IN  \E ok \in BOOLEAN :
              IF ~ok THEN Throw(not_found(id) \o <<": ">> \o cosmos_error) /\ UNCHANGED work_order
              ELSE IF items = {} THEN Throw(not_found(id)) /\ UNCHANGED work_order
              ELSE /\ \E item \in items : work_order' = work_order_of_item(item)
                   /\ ex_pc' = IF executor = "MaintenanceSchedulerExecutor"
                               THEN "predict_schedule" ELSE "check_parts"
                   /\ UNCHANGED exception
    /\ UNCHANGED <<wfVars, svcVars>>
    /\ UNCHANGED <<cancel_requested, executor, os_environ, message, input_text, pending_status,
                   response_text, event_queue, uuids, db>>

\* the history and the windows are read (neither call raises), the agent
\* predicts: agent.run may fail; if it does not, the interaction is saved to the
\* chat history unless the saving fails, and the schedule is read from the
\* response unless that is not the JSON asked for
predict_schedule ==
    /\ ex_pc = "predict_schedule"
    /\ calls' = calls \cup {"get_maintenance_history", "get_available_maintenance_windows",
                            "predict_schedule"}
    /\ \E outcome \in {"ok", "agent.run", "json.loads"}, saved \in BOOLEAN :
          LET m == work_order.machine_id
              existing == chat_history[m]
              can_save == outcome # "agent.run" /\ saved
                          /\ (existing = None \/ is_json(existing))
              user == user_message(0, 1)
              assistant == assistant_message(0, 1)
          IN  /\ chat_history' =
                    IF can_save
                    THEN [chat_history EXCEPT ![m] =
                            json_dumps(interaction_history(
                                IF existing # None THEN json_loads(existing) ELSE <<>>,
                                user, assistant))]
                    ELSE chat_history
              /\ chat_log' = IF can_save
                             THEN [chat_log EXCEPT ![m] = @ \o <<user, assistant>>]
                             ELSE chat_log
              /\ IF outcome = "ok"
                 THEN /\ response_text' = schedule_text(
                             [id |-> "sched-1", machine_id |-> work_order.machine_id])
                      /\ ex_pc' = "save_schedule"
                      /\ UNCHANGED exception
                 ELSE Throw(agent_error) /\ UNCHANGED response_text
    /\ UNCHANGED <<wfVars, upd, sched>>
    /\ UNCHANGED <<work_order_id, cancel_requested, executor, os_environ, message, input_text, work_order,
                   pending_status, event_queue, uuids, db>>

\* cosmos_service.save_maintenance_schedule(schedule)
save_maintenance_schedule ==
    /\ ex_pc = "save_schedule"
    /\ calls' = calls \cup {"save_maintenance_schedule"}
    /\ \E ok \in BOOLEAN :
          IF ok
          THEN /\ db' = [db EXCEPT !.MaintenanceSchedules =
                            @ \cup {[id |-> "sched-1", workOrderId |-> work_order.id]}]
               /\ ex_pc' = "respond"
               /\ UNCHANGED exception
          ELSE Throw(cosmos_error) /\ UNCHANGED db
    /\ UNCHANGED <<wfVars, svcVars>>
    /\ UNCHANGED <<work_order_id, cancel_requested, executor, os_environ, message, input_text, work_order, pending_status,
                   response_text, event_queue, uuids>>

\* the inventory is read (the call does not raise) and the parts to order are found
check_parts ==
    /\ ex_pc = "check_parts"
    /\ LET missing == SelectSeq(work_order.required_parts, LAMBDA q : ~q.is_available)
           numbers == [i \in 1..Len(missing) |-> missing[i].part_number]
       IN  IF missing = <<>>
           THEN /\ response_text' = all_available_text
                /\ pending_status' = "Ready"
                /\ ex_pc' = "update_get"
                /\ calls' = calls \cup {"get_inventory_items"}
           ELSE /\ calls' = calls \cup {"get_inventory_items", "get_suppliers_for_parts"}
                /\ IF get_suppliers_for_parts(db.Suppliers, numbers) = <<>>
                   THEN /\ response_text' = no_suppliers_text
                        /\ ex_pc' = "respond"
                   ELSE /\ ex_pc' = "generate_order"
                        /\ UNCHANGED response_text
                /\ UNCHANGED pending_status
    /\ UNCHANGED <<wfVars, svcVars>>
    /\ UNCHANGED <<work_order_id, cancel_requested, executor, os_environ, message, input_text, work_order, exception,
                   event_queue, uuids, db>>

\* agent.generate_order(work_order, inventory, suppliers)
generate_order ==
    /\ ex_pc = "generate_order"
    /\ calls' = calls \cup {"generate_order"}
    /\ \E ok \in BOOLEAN :
          IF ok
          THEN /\ response_text' = order_text([id |-> "PO-1", work_order_id |-> work_order.id])
               /\ ex_pc' = "save_order"
               /\ UNCHANGED exception
          ELSE Throw(agent_error) /\ UNCHANGED response_text
    /\ UNCHANGED <<wfVars, svcVars>>
    /\ UNCHANGED <<work_order_id, cancel_requested, executor, os_environ, message, input_text, work_order, pending_status,
                   event_queue, uuids, db>>

\* save_parts_order whose failure is not raised: execute goes on to the status
save_parts_order_unchecked ==
    /\ ex_pc = "save_order"
    /\ calls' = calls \cup {"save_parts_order"}
    /\ \E ok \in BOOLEAN :
          db' = IF ok THEN [db EXCEPT !.PartsOrders =
                               @ \cup {[id |-> "PO-1", workOrderId |-> work_order.id]}]
                ELSE db
    /\ pending_status' = "PartsOrdered"
    /\ ex_pc' = "update_get"
    /\ UNCHANGED <<wfVars, svcVars>>
    /\ UNCHANGED <<work_order_id, cancel_requested, executor, os_environ, message, input_text, work_order, response_text,
                   event_queue, uuids, exception>>

\* cosmos_service.save_parts_order(order)
save_parts_order ==
    /\ ex_pc = "save_order"
    /\ calls' = calls \cup {"save_parts_order"}
    /\ \E ok \in BOOLEAN :
          IF ok
          THEN /\ db' = [db EXCEPT !.PartsOrders =
                            @ \cup {[id |-> "PO-1", workOrderId |-> work_order.id]}]
               /\ pending_status' = "PartsOrdered"
               /\ ex_pc' = "update_get"
               /\ UNCHANGED exception
          ELSE Throw(cosmos_error) /\ UNCHANGED <<db, pending_status>>
    /\ UNCHANGED <<wfVars, svcVars>>
    /\ UNCHANGED <<work_order_id, cancel_requested, executor, os_environ, message, input_text, work_order, response_text,
                   event_queue, uuids>>

\* update_work_order_status: the work order is read again
update_get ==
    /\ ex_pc = "update_get"
    /\ calls' = calls \cup {"update_work_order_status"}
    /\ LET items == query_work_orders(db.WorkOrders, work_order.id)
       IN  \E ok \in BOOLEAN :
              IF ~ok THEN Throw(not_found(work_order.id) \o <<": ">> \o cosmos_error)
                          /\ UNCHANGED work_order
              ELSE IF items = {} THEN Throw(not_found(work_order.id)) /\ UNCHANGED work_order
              ELSE /\ \E item \in items : work_order' = work_order_of_item(item)
                   /\ ex_pc' = "update_delete"
                   /\ UNCHANGED exception
    /\ UNCHANGED <<wfVars, svcVars>>
    /\ UNCHANGED <<work_order_id, cancel_requested, executor, os_environ, message, input_text, pending_status,
                   response_text, event_queue, uuids, db>>

\* update_work_order_status: delete_item(item=work_order_id, partition_key=old_status)
update_delete ==
    /\ ex_pc = "update_delete"
    /\ LET old == delete_item(db.WorkOrders, work_order.id, work_order.status)
       IN  \E ok \in BOOLEAN :
              IF ok /\ old # {}
              THEN /\ db' = [db EXCEPT !.WorkOrders = @ \ old]
                   /\ ex_pc' = "update_upsert"
                   /\ UNCHANGED exception
              ELSE Throw(cosmos_error) /\ UNCHANGED db
    /\ UNCHANGED <<wfVars, svcVars>>
    /\ UNCHANGED <<work_order_id, cancel_requested, executor, os_environ, message, input_text, work_order, pending_status,
                   response_text, event_queue, uuids, calls>>

\* update_work_order_status: upsert_item(body=item) with the new status
update_upsert ==
    /\ ex_pc = "update_upsert"
    /\ LET item == item_of_work_order(work_order, pending_status)
       IN  \E ok \in BOOLEAN :
              IF ok
              THEN /\ db' = [db EXCEPT !.WorkOrders = upsert_item(@, item)]
                   /\ ex_pc' = "respond"
                   /\ UNCHANGED exception
              ELSE Throw(cosmos_error) /\ UNCHANGED db
    /\ UNCHANGED <<wfVars, svcVars>>
    /\ UNCHANGED <<work_order_id, cancel_requested, executor, os_environ, message, input_text, work_order, pending_status,
                   response_text, event_queue, uuids, calls>>

\* the except branch enqueues an error message of its own before the common one
handle_exception_enqueues ==
    /\ ex_pc = "except"
    /\ response_text' = error_text(executor, exception)
    /\ LET id == CHOOSE id \in (1..MaxUuid) \ uuids : TRUE
       IN  /\ uuids' = uuids \cup {id}
           /\ event_queue' = Append(event_queue, response_message(id, response_text'))
    /\ ex_pc' = "respond"
    /\ UNCHANGED <<wfVars, svcVars>>
    /\ UNCHANGED <<work_order_id, cancel_requested, executor, os_environ, message, input_text, work_order, pending_status,
                   exception, db, calls>>

\* except Exception as e: the exception becomes the response text
handle_exception ==
    /\ ex_pc = "except"
    /\ response_text' = error_text(executor, exception)
    /\ ex_pc' = "respond"
    /\ UNCHANGED <<wfVars, svcVars>>
    /\ UNCHANGED <<work_order_id, cancel_requested, executor, os_environ, message, input_text, work_order, pending_status,
                   exception, event_queue, uuids, db, calls>>

\* the response Message is built with uuid.uuid4() and enqueued; execute returns
enqueue_event ==
    /\ ex_pc = "respond"
    /\ \E id \in (1..MaxUuid) \ uuids :
          /\ uuids' = uuids \cup {id}
          /\ event_queue' = Append(event_queue, response_message(id, response_text))
    /\ ex_pc' = "returned"
    /\ UNCHANGED <<wfVars, svcVars>>
    /\ UNCHANGED <<work_order_id, cancel_requested, executor, os_environ, message, input_text, work_order, pending_status,
                   exception, response_text, db, calls>>

\* cancel(context, event_queue): pass
cancel ==
    /\ ex_pc # "idle"
    /\ cancel_requested' = TRUE
    /\ UNCHANGED <<wfVars, svcVars>>
    /\ UNCHANGED <<executor, os_environ, message, ex_pc, input_text, work_order_id, work_order,
                   pending_status, exception, response_text, event_queue, uuids, db, calls>>

ExecNext ==
    \/ cancel
    \/ extract_input
    \/ check_env
    \/ init_services
    \/ get_work_order
    \/ predict_schedule
    \/ save_maintenance_schedule
    \/ check_parts
    \/ generate_order
    \/ save_parts_order
    \/ update_get
    \/ update_delete
    \/ update_upsert
    \/ handle_exception
    \/ enqueue_event

----------------------------------------------------------------------------
(* The inputs *)

MachineIds == {"machine-001", "machine-007"}

Requests == [machine_id : MachineIds, telemetry : {"temp=210"}]

AgentNodes == {"AnomalyAgent", "FaultAgent", "RepairPlannerAgent"}

Reply(t) == [raises |-> FALSE, text |-> t]
Raises   == [raises |-> TRUE, text |-> <<>>]

\* the agent's run raises an exception with that description
RaisesWith(t) == [raises |-> TRUE, text |-> t]

AnomalyTexts == {T_CRITICAL, T_OK, T_ALERT, T_HIGH, T_WARN, T_EMPTY}

\* the replies of the three agents to one machine's request
Mocks ==
    [AnomalyAgent : {Reply(t) : t \in AnomalyTexts} \cup {Raises, RaisesWith(T_CRITICAL)},
     FaultAgent : {Reply(T_DIAG), Reply(T_CRITICAL), Raises},
     RepairPlannerAgent : {Reply(T_PLAN), Raises}]

\* the replies used when two runs are composed
FewMocks ==
    [AnomalyAgent : {Reply(T_CRITICAL), Reply(T_OK), Raises},
     FaultAgent : {Reply(T_DIAG), Raises},
     RepairPlannerAgent : {Reply(T_PLAN)}]

DefaultMock ==
    [AnomalyAgent |-> Reply(T_OK), FaultAgent |-> Reply(T_DIAG),
     RepairPlannerAgent |-> Reply(T_PLAN)]

DefaultRequest == [machine_id |-> "machine-001", telemetry |-> "temp=210"]

NoResponse == [status |-> 0, results |-> <<>>, error |-> ""]

\* the outcomes of get_a2a_agent
CardOutcomes == {"card_ok", "unreachable", "non_2xx", "malformed", "no_resolver", "no_package"}

CardFailures == {"unreachable", "non_2xx", "malformed"}

\* no agent card requested, no A2A agent constructed, none invoked
NoA2A == [card_requests |-> 0, agent |-> "none", invocations |-> <<>>]

\* get_a2a_agent: the card is requested, and A2AAgent is bound to it if it came
card_request(a, came) ==
    [a EXCEPT !.card_requests = @ + 1, !.agent = IF came THEN "card-bound" ELSE @]

\* the agent factory that discovers the agent again on every use
agent_factory_rediscover(a, node) ==
    IF node = "RepairPlannerAgent"
    THEN [a EXCEPT !.card_requests = @ + 1, !.invocations = Append(@, "card-bound")]
    ELSE a

\* lambda: repair_planner_agent: every use gets the agent get_a2a_agent returned
agent_factory(a, node) ==
    IF node = "RepairPlannerAgent"
    THEN [a EXCEPT !.invocations = Append(@, a.agent)]
    ELSE a

InitRuns ==
    /\ pc = [r \in Runs |-> "idle"]
    /\ builder = [r \in Runs |-> WorkflowBuilder]
    /\ workflow = [r \in Runs |-> NotBuilt]
    /\ pending = [r \in Runs |-> <<>>]
    /\ outputs = [r \in Runs |-> <<>>]
    /\ invoked = [r \in Runs |-> <<>>]
    /\ discovery = [r \in Runs |-> "none"]
    /\ credential = [r \in Runs |-> "none"]
    /\ raised = [r \in Runs |-> ""]
    /\ http = [r \in Runs |-> NoResponse]
    /\ a2a = [r \in Runs |-> NoA2A]

\* the two paths that use the Cosmos DB service at the same time
Callers == {"parts_ordering", "maintenance_scheduler"}

NoUpdate ==
    [pc |-> "idle", id |-> <<>>, status |-> "", work_order |-> NoWorkOrder, before |-> {},
     calls |-> 0, error |-> ""]

\* the asyncio tasks that call predict_schedule
Tasks == {1, 2}

NoPrediction ==
    [pc |-> "idle", machine_id |-> "", k |-> 0, budget |-> 0, history_context |-> <<>>,
     response_text |-> <<>>, messages |-> <<>>, error |-> "", faults |-> 0]

\* no call of the Cosmos DB service is in progress
SvcIdle ==
    /\ upd = [c \in Callers |-> NoUpdate]
    /\ chat_history = [m \in MachineIds |-> None]
    /\ sched = [t \in Tasks |-> NoPrediction]
    /\ chat_log = [m \in MachineIds |-> <<>>]

\* one request is analyzed
InitOne ==
    /\ env \in [AZURE_AI_PROJECT_ENDPOINT : BOOLEAN, REPAIR_PLANNER_AGENT_URL : BOOLEAN]
    /\ \E q \in Requests, m \in Mocks :
          /\ request = [r \in Runs |-> IF r = 1 THEN q ELSE DefaultRequest]
          /\ mock = [id \in MachineIds |-> IF id = q.machine_id THEN m ELSE DefaultMock]
    /\ InitRuns
    /\ ExecIdle
    /\ SvcIdle

\* two requests are analyzed at the same time
InitTwo ==
    /\ env \in [AZURE_AI_PROJECT_ENDPOINT : BOOLEAN, REPAIR_PLANNER_AGENT_URL : BOOLEAN]
    /\ request \in [Runs -> Requests]
    /\ mock \in [MachineIds -> FewMocks]
    /\ InitRuns
    /\ ExecIdle
    /\ SvcIdle

----------------------------------------------------------------------------
(* analyze_machine and run_factory_workflow, one action per await *)

\* an exception leaves run_factory_workflow's try block: the finally runs next
Raise(r, what) ==
    /\ raised' = [raised EXCEPT ![r] = what]
    /\ pc' = [pc EXCEPT ![r] = "finally"]

\* POST /api/analyze_machine
analyze_machine(r) ==
    /\ pc[r] = "idle"
    /\ pc' = [pc EXCEPT ![r] = "require_env"]
    /\ UNCHANGED <<exVars, svcVars>>
    /\ UNCHANGED <<a2a, env, mock, request, builder, workflow, pending, outputs, invoked,
                   discovery, credential, raised, http>>

\* _require_env("AZURE_AI_PROJECT_ENDPOINT"), before the try block
require_env(r) ==
    /\ pc[r] = "require_env"
    /\ IF env.AZURE_AI_PROJECT_ENDPOINT
       THEN /\ pc' = [pc EXCEPT ![r] = "register"]
            /\ credential' = [credential EXCEPT ![r] = "open"]
            /\ UNCHANGED raised
       ELSE /\ pc' = [pc EXCEPT ![r] = "except"]
            /\ raised' = [raised EXCEPT ![r] = "Missing required environment variable"]
            /\ UNCHANGED credential
    /\ UNCHANGED <<exVars, svcVars>>
    /\ UNCHANGED <<a2a, env, mock, request, builder, workflow, pending, outputs, invoked,
                   discovery, http>>

\* WorkflowBuilder() and the registrations of the local executor and agents
register(r) ==
    /\ pc[r] = "register"
    /\ builder' = [builder EXCEPT ![r] = register_local(WorkflowBuilder)]
    /\ pc' = [pc EXCEPT ![r] = IF env.REPAIR_PLANNER_AGENT_URL THEN "discover" ELSE "edges"]
    /\ UNCHANGED <<exVars, svcVars>>
    /\ UNCHANGED <<a2a, env, mock, request, workflow, pending, outputs, invoked, discovery,
                   credential, raised, http>>

\* get_a2a_agent that keeps a failed card fetch to itself and binds the agent lazily
get_a2a_agent_lazy(r) ==
    /\ pc[r] = "discover"
    /\ \E outcome \in CardOutcomes :
          /\ discovery' = [discovery EXCEPT ![r] =
                IF outcome \in CardFailures THEN "failed"
                ELSE IF outcome = "card_ok" THEN "fetched" ELSE "skipped"]
          /\ a2a' = [a2a EXCEPT ![r] =
                IF outcome \in CardFailures THEN card_request(@, FALSE)
                ELSE IF outcome = "card_ok" THEN card_request(@, TRUE)
                ELSE [@ EXCEPT !.agent = "url-only"]]
          /\ builder' = [builder EXCEPT ![r] = register_agent(@, "RepairPlannerAgent", TRUE)]
          /\ pc' = [pc EXCEPT ![r] = "edges"]
          /\ UNCHANGED raised
    /\ UNCHANGED <<exVars, svcVars>>
    /\ UNCHANGED <<env, mock, request, workflow, pending, outputs, invoked, credential, http>>

\* get_a2a_agent(server_url) and the registration of the agent it returns
get_a2a_agent(r) ==
    /\ pc[r] = "discover"
    /\ \E outcome \in CardOutcomes :
          CASE outcome = "card_ok" ->
                  /\ discovery' = [discovery EXCEPT ![r] = "fetched"]
                  /\ a2a' = [a2a EXCEPT ![r] = card_request(@, TRUE)]
                  /\ builder' = [builder EXCEPT ![r] = register_agent(@, "RepairPlannerAgent", TRUE)]
                  /\ pc' = [pc EXCEPT ![r] = "edges"]
                  /\ UNCHANGED raised
            [] outcome \in CardFailures ->
                  /\ discovery' = [discovery EXCEPT ![r] = "failed"]
                  /\ a2a' = [a2a EXCEPT ![r] = card_request(@, FALSE)]
                  /\ Raise(r, outcome)
                  /\ UNCHANGED builder
            [] outcome = "no_resolver" ->
                  /\ discovery' = [discovery EXCEPT ![r] = "skipped"]
                  /\ a2a' = [a2a EXCEPT ![r].agent = "url-only"]
                  /\ builder' = [builder EXCEPT ![r] = register_agent(@, "RepairPlannerAgent", TRUE)]
                  /\ pc' = [pc EXCEPT ![r] = "edges"]
                  /\ UNCHANGED raised
            [] outcome = "no_package" ->
                  /\ Raise(r, "A2A support requires the 'agent-framework-a2a' package")
                  /\ UNCHANGED <<discovery, builder, a2a>>
    /\ UNCHANGED <<exVars, svcVars>>
    /\ UNCHANGED <<env, mock, request, workflow, pending, outputs, invoked, credential, http>>

\* set_start_executor and the add_edge calls
edges(r) ==
    /\ pc[r] = "edges"
    /\ builder' = [builder EXCEPT ![r] = add_edges(@, env.REPAIR_PLANNER_AGENT_URL)]
    /\ pc' = [pc EXCEPT ![r] = "build"]
    /\ UNCHANGED <<exVars, svcVars>>
    /\ UNCHANGED <<a2a, env, mock, request, workflow, pending, outputs, invoked, discovery,
                   credential, raised, http>>

\* builder.build()
build(r) ==
    /\ pc[r] = "build"
    /\ IF valid_graph(builder[r])
       THEN /\ workflow' = [workflow EXCEPT ![r] =
                   [built |-> TRUE, executors |-> builder[r].executors,
                    output_response |-> builder[r].output_response,
                    edges |-> builder[r].edges, start |-> builder[r].start]]
            /\ pc' = [pc EXCEPT ![r] = "run"]
            /\ UNCHANGED raised
       ELSE /\ Raise(r, "invalid workflow graph")
            /\ UNCHANGED workflow
    /\ UNCHANGED <<exVars, svcVars>>
    /\ UNCHANGED <<a2a, env, mock, request, builder, pending, outputs, invoked, discovery,
                   credential, http>>

\* workflow.run(data): the input is delivered to the start executor
run(r) ==
    /\ pc[r] = "run"
    /\ pending' = [pending EXCEPT ![r] =
          <<[node |-> workflow[r].start, msg |-> RunInput(request[r])]>>]
    /\ pc' = [pc EXCEPT ![r] = "running"]
    /\ UNCHANGED <<exVars, svcVars>>
    /\ UNCHANGED <<a2a, env, mock, request, builder, workflow, outputs, invoked, discovery,
                   credential, raised, http>>

\* outputs kept apart by a set of executor names that all runs share
yields_output_once(wf, node) ==
    /\ node \in wf.output_response
    /\ \A r \in Runs : \A i \in 1..Len(outputs[r]) : outputs[r][i].executor # node

\* does the executor yield its result as an output of the workflow
yields_output(wf, node) == node \in wf.output_response

\* the next delivery goes to RequestProcessor: process sends the prompt on
invoke_executor(r) ==
    /\ pc[r] = "running"
    /\ pending[r] # <<>>
    /\ Head(pending[r]).node = "RequestProcessor"
    /\ LET item == Head(pending[r])
           sent == StrMessage(process(item.msg))
       IN  /\ invoked' = [invoked EXCEPT ![r] = Append(@, item)]
           /\ pending' = [pending EXCEPT ![r] =
                 Tail(@) \o deliveries(workflow[r], item.node, sent)]
    /\ UNCHANGED <<exVars, svcVars>>
    /\ UNCHANGED <<a2a, env, mock, request, pc, builder, workflow, outputs, discovery,
                   credential, raised, http>>

\* one list of outputs that every run appends to
collect_shared(outs, r, out) == [q \in Runs |-> Append(outs[q], out)]

\* the output is appended to the outputs of the run that yielded it
collect(outs, r, out) == [outs EXCEPT ![r] = Append(@, out)]

\* the next delivery goes to an agent: the agent runs; its reply is yielded as
\* an output and sent on, or its exception leaves workflow.run
invoke_agent(r) ==
    /\ pc[r] = "running"
    /\ pending[r] # <<>>
    /\ Head(pending[r]).node \in AgentNodes
    /\ LET item == Head(pending[r])
           reply == mock[request[r].machine_id][item.node]
       IN  /\ invoked' = [invoked EXCEPT ![r] = Append(@, item)]
           /\ a2a' = [a2a EXCEPT ![r] = agent_factory(@, item.node)]
           /\ IF reply.raises
              THEN /\ pending' = [pending EXCEPT ![r] = Tail(@)]
                   /\ Raise(r, "agent run failed")
                   /\ UNCHANGED outputs
              ELSE /\ outputs' =
                         IF yields_output(workflow[r], item.node)
                         THEN collect(outputs, r, AgentRunResponse(item.node, reply.text))
                         ELSE outputs
                   /\ pending' = [pending EXCEPT ![r] =
                         Tail(@) \o deliveries(workflow[r], item.node,
                                               AgentExecutorResponse(reply.text))]
                   /\ UNCHANGED <<pc, raised>>
    /\ UNCHANGED <<exVars, svcVars>>
    /\ UNCHANGED <<env, mock, request, builder, workflow, discovery, credential, http>>

\* no message is left: workflow.run returns, result.get_outputs() is returned
get_outputs(r) ==
    /\ pc[r] = "running"
    /\ pending[r] = <<>>
    /\ pc' = [pc EXCEPT ![r] = "finally"]
    /\ UNCHANGED <<exVars, svcVars>>
    /\ UNCHANGED <<a2a, env, mock, request, builder, workflow, pending, outputs, invoked,
                   discovery, credential, raised, http>>

\* finally: await credential.close()
close_credential(r) ==
    /\ pc[r] = "finally"
    /\ credential' = [credential EXCEPT ![r] = "closed"]
    /\ pc' = [pc EXCEPT ![r] = IF raised[r] = "" THEN "serialize" ELSE "except"]
    /\ UNCHANGED <<exVars, svcVars>>
    /\ UNCHANGED <<a2a, env, mock, request, builder, workflow, pending, outputs, invoked,
                   discovery, raised, http>>

\* analyze_machine: return {"results": serialized_outputs}
respond_results(r) ==
    /\ pc[r] = "serialize"
    /\ http' = [http EXCEPT ![r] =
          [status |-> 200, results |-> serialized_outputs(outputs[r]), error |-> ""]]
    /\ pc' = [pc EXCEPT ![r] = "responded"]
    /\ UNCHANGED <<exVars, svcVars>>
    /\ UNCHANGED <<a2a, env, mock, request, builder, workflow, pending, outputs, invoked,
                   discovery, credential, raised>>

\* analyze_machine: except Exception -> JSONResponse({"error": str(e)}, 500)
respond_error(r) ==
    /\ pc[r] = "except"
    /\ http' = [http EXCEPT ![r] = [status |-> 500, results |-> <<>>, error |-> raised[r]]]
    /\ pc' = [pc EXCEPT ![r] = "responded"]
    /\ UNCHANGED <<exVars, svcVars>>
    /\ UNCHANGED <<a2a, env, mock, request, builder, workflow, pending, outputs, invoked,
                   discovery, credential, raised>>

Step(r) ==
    \/ analyze_machine(r)
    \/ require_env(r)
    \/ register(r)
    \/ get_a2a_agent(r)
    \/ edges(r)
    \/ build(r)
    \/ run(r)
    \/ invoke_executor(r)
    \/ invoke_agent(r)
    \/ get_outputs(r)
    \/ close_credential(r)
    \/ respond_results(r)
    \/ respond_error(r)

Next == Step(1)

Spec == InitOne /\ [][Next]_vars

\* the scheduler runs every task that can run
LiveSpec == InitOne /\ [][Next]_vars /\ WF_vars(Next)

NextTwo == \E r \in Runs : Step(r)

SpecTwo == InitTwo /\ [][NextTwo]_vars

\* one call of an A2A executor's execute; no request is being analyzed
InitExec ==
    /\ env = [AZURE_AI_PROJECT_ENDPOINT |-> FALSE, REPAIR_PLANNER_AGENT_URL |-> FALSE]
    /\ request = [r \in Runs |-> DefaultRequest]
    /\ mock = [id \in MachineIds |-> DefaultMock]
    /\ InitRuns
    /\ ExecInit
    /\ SvcIdle

ExecSpec == InitExec /\ [][ExecNext]_vars

\* the texts a request is made of: ids in both cases, the beginning of an id,
\* hexadecimal and other characters
IdTokens == {WO_468, I_UPPER, <<"w","o","-","2","0","2","4","-">>, <<"a","b">>, <<"1">>,
             <<"g">>, <<" ">>}

MaxTokens == 3

RECURSIVE join(_)
join(tokens) == IF tokens = <<>> THEN <<>> ELSE Head(tokens) \o join(Tail(tokens))

IdTexts == {join(tokens) : tokens \in UNION {[1..n -> IdTokens] : n \in 0..MaxTokens}}

\* execute called with one text part, everything set in the environment, two
\* work orders stored and a supplier of the part one of them lacks
InitIds ==
    /\ env = [AZURE_AI_PROJECT_ENDPOINT |-> FALSE, REPAIR_PLANNER_AGENT_URL |-> FALSE]
    /\ request = [r \in Runs |-> DefaultRequest]
    /\ mock = [id \in MachineIds |-> DefaultMock]
    /\ InitRuns
    /\ executor \in Executors
    /\ os_environ = [n \in EnvNames |-> TRUE]
    /\ \E t \in IdTexts : message = [is_none |-> FALSE, parts |-> <<TextPart(t)>>]
    /\ ex_pc = "start"
    /\ input_text = <<>>
    /\ work_order_id = <<>>
    /\ work_order = NoWorkOrder
    /\ pending_status = ""
    /\ exception = <<>>
    /\ response_text = <<>>
    /\ event_queue = <<>>
    /\ uuids = {1}
    /\ db = [WorkOrders |-> {WorkOrderItem(WO_468, "machine-001", <<Part("P-2", FALSE)>>),
                             WorkOrderItem(WO_AB1, "machine-007", <<>>)},
             Suppliers |-> <<[id |-> "supplier-100", parts |-> {"P-2"}]>>,
             PartsOrders |-> {}, MaintenanceSchedules |-> {}]
    /\ calls = {}
    /\ cancel_requested = FALSE
    /\ SvcIdle

IdSpec == InitIds /\ [][ExecNext]_vars

----------------------------------------------------------------------------
(* CosmosDbService.update_work_order_status, called from several paths *)

MaxUpdates == 2

\* the status each path writes
StatusOf(c) == IF c = "parts_ordering" THEN {"Ready", "PartsOrdered"} ELSE {"Scheduled"}

\* the contents of the WorkOrders container when the calls begin
UpdWorkOrderSets ==
    { {},
      {WorkOrderItem(WO_468, "machine-001", <<Part("P-1", TRUE), Part("P-2", FALSE)>>)},
      {[WorkOrderItem(WO_468, "machine-001", <<Part("P-2", FALSE)>>)
            EXCEPT !.createdAt = IsoText("+00:00", 2), !.status = "Scheduled"],
       WorkOrderItem(WO_AB1, "machine-007", <<>>)},
      {[id |-> WO_468, machineId |-> "machine-001", status |-> "Created",
        requiredParts |-> <<[partNumber |-> "P-1"]>>, createdAt |-> IsoText("invalid", 0)]},
      {[WorkOrderItem(WO_AB1, "machine-007", <<Part("P-1", TRUE)>>)
            EXCEPT !.createdAt = None, !.status = "Ready"]} }

\* update_work_order_status(work_order_id, status) is called
update_work_order_status(c) ==
    /\ upd[c].pc \in {"idle", "done", "failed"}
    /\ upd[c].calls < MaxUpdates
    /\ \E id \in {WO_468, WO_AB1}, status \in StatusOf(c) :
          upd' = [upd EXCEPT ![c] =
                    [pc |-> "get", id |-> id, status |-> status, work_order |-> NoWorkOrder,
                     before |-> db.WorkOrders, calls |-> @.calls + 1, error |-> ""]]
    /\ UNCHANGED <<wfVars, exVars, chat_history, sched, chat_log>>

\* work_order = await self.get_work_order(work_order_id)
upd_get_work_order(c) ==
    /\ upd[c].pc = "get"
    /\ LET items == query_work_orders(db.WorkOrders, upd[c].id)
       IN  \E ok \in BOOLEAN :
              IF ~ok
              THEN upd' = [upd EXCEPT ![c].pc = "failed", ![c].error = "cosmos"]
              ELSE IF items = {}
              THEN upd' = [upd EXCEPT ![c].pc = "failed", ![c].error = "not_found"]
              ELSE \E item \in items :
                      upd' = [upd EXCEPT ![c].pc = "delete",
                                         ![c].work_order = work_order_of_item(item)]
    /\ UNCHANGED <<wfVars, exVars, chat_history, sched, chat_log>>

\* container.delete_item(item=work_order_id, partition_key=old_status)
upd_delete_item(c) ==
    /\ upd[c].pc = "delete"
    /\ LET old == delete_item(db.WorkOrders, upd[c].id, upd[c].work_order.status)
       IN  \E ok \in BOOLEAN :
              IF ~ok
              THEN /\ upd' = [upd EXCEPT ![c].pc = "failed", ![c].error = "cosmos"]
                   /\ UNCHANGED db
              ELSE IF old = {}
              THEN /\ upd' = [upd EXCEPT ![c].pc = "failed", ![c].error = "delete_not_found"]
                   /\ UNCHANGED db
              ELSE /\ db' = [db EXCEPT !.WorkOrders = @ \ old]
                   /\ upd' = [upd EXCEPT ![c].pc = "upsert"]
    /\ UNCHANGED <<wfVars, chat_history, sched, chat_log>>
    /\ UNCHANGED <<work_order_id, cancel_requested, executor, os_environ, message, ex_pc, input_text,
                   work_order, pending_status, exception, response_text, event_queue, uuids,
                   calls>>

\* container.upsert_item(body=item)
upd_upsert_item(c) ==
    /\ upd[c].pc = "upsert"
    /\ \E ok \in BOOLEAN :
          IF ok
          THEN /\ db' = [db EXCEPT !.WorkOrders =
                            upsert_item(@, item_of_work_order(upd[c].work_order, upd[c].status))]
               /\ upd' = [upd EXCEPT ![c].pc = "done"]
          ELSE /\ upd' = [upd EXCEPT ![c].pc = "failed", ![c].error = "cosmos"]
               /\ UNCHANGED db
    /\ UNCHANGED <<wfVars, chat_history, sched, chat_log>>
    /\ UNCHANGED <<work_order_id, cancel_requested, executor, os_environ, message, ex_pc, input_text,
                   work_order, pending_status, exception, response_text, event_queue, uuids,
                   calls>>

UpdStep(c) ==
    \/ update_work_order_status(c)
    \/ upd_get_work_order(c)
    \/ upd_delete_item(c)
    \/ upd_upsert_item(c)

\* is a call of another path in progress
OtherCallInProgress(c) == \E o \in Callers \ {c} : upd[o].pc \in {"get", "delete", "upsert"}

\* the calls follow one another
UpdNext == \E c \in Callers : ~OtherCallInProgress(c) /\ UpdStep(c)

\* the calls of the two paths interleave
UpdTwoNext == \E c \in Callers : UpdStep(c)

InitUpd ==
    /\ env = [AZURE_AI_PROJECT_ENDPOINT |-> FALSE, REPAIR_PLANNER_AGENT_URL |-> FALSE]
    /\ request = [r \in Runs |-> DefaultRequest]
    /\ mock = [id \in MachineIds |-> DefaultMock]
    /\ InitRuns
    /\ executor = "none"
    /\ os_environ = [n \in EnvNames |-> FALSE]
    /\ message = [is_none |-> TRUE, parts |-> <<>>]
    /\ ex_pc = "idle"
    /\ input_text = <<>>
    /\ work_order_id = <<>>
    /\ work_order = NoWorkOrder
    /\ pending_status = ""
    /\ exception = <<>>
    /\ response_text = <<>>
    /\ event_queue = <<>>
    /\ uuids = {}
    /\ \E w \in UpdWorkOrderSets :
          db = [WorkOrders |-> w, Suppliers |-> <<>>, PartsOrders |-> {},
                MaintenanceSchedules |-> {}]
    /\ calls = {}
    /\ cancel_requested = FALSE
    /\ SvcIdle

UpdSpec == InitUpd /\ [][UpdNext]_vars

UpdTwoSpec == InitUpd /\ [][UpdTwoNext]_vars

----------------------------------------------------------------------------
(* MaintenanceSchedulerAgent.predict_schedule and the machine chat history *)

\* predict_schedule(work_order, history, windows) is called; the calls of a task
\* are about the work orders of one machine
agent_predict_schedule(t) ==
    /\ sched[t].pc \in {"idle", "done", "failed"}
    /\ sched[t].k < sched[t].budget
    /\ \E m \in IF sched[t].k = 0 THEN MachineIds ELSE {sched[t].machine_id} :
          sched' = [sched EXCEPT ![t] =
                      [@ EXCEPT !.pc = "context", !.machine_id = m, !.k = @ + 1,
                                !.history_context = <<>>, !.response_text = <<>>,
                                !.messages = <<>>, !.error = ""]]
    /\ UNCHANGED <<wfVars, exVars, upd, chat_history, chat_log>>

\* chat_history_json = get_machine_chat_history(machine_id): None when the read
\* fails; the last five messages go into the prompt if the JSON can be read
get_machine_chat_history(t) ==
    /\ sched[t].pc = "context"
    /\ \E ok \in BOOLEAN :
          LET chat_history_json == IF ok THEN chat_history[sched[t].machine_id] ELSE None
          IN  sched' = [sched EXCEPT
                  ![t].pc = "run",
                  ![t].faults = IF ok THEN @ ELSE 1,
                  ![t].history_context =
                      IF chat_history_json # None /\ is_json(chat_history_json)
                      THEN last(json_loads(chat_history_json), ContextMessages)
                      ELSE <<>>]
    /\ UNCHANGED <<wfVars, exVars, upd, chat_history, chat_log>>

\* result = await agent.run(full_prompt)
agent_run(t) ==
    /\ sched[t].pc = "run"
    /\ \E ok \in BOOLEAN :
          IF ok
          THEN sched' = [sched EXCEPT ![t].pc = "save_read",
                                      ![t].response_text = <<"response", t, sched[t].k>>]
          ELSE sched' = [sched EXCEPT ![t].pc = "failed", ![t].error = "agent.run",
                                      ![t].faults = 1]
    /\ UNCHANGED <<wfVars, exVars, upd, chat_history, chat_log>>

\* _save_interaction_history: the existing history is read and the interaction
\* appended; an exception ends the saving and nothing else
save_interaction_history(t) ==
    /\ sched[t].pc = "save_read"
    /\ \E ok \in BOOLEAN :
          LET existing_json == IF ok THEN chat_history[sched[t].machine_id] ELSE None
          IN  IF existing_json # None /\ ~is_json(existing_json)
              THEN sched' = [sched EXCEPT ![t].pc = "extract_json"]
              ELSE sched' = [sched EXCEPT
                      ![t].pc = "save_write",
                      ![t].faults = IF ok THEN @ ELSE 1,
                      ![t].messages =
                          interaction_history(
                              IF existing_json # None THEN json_loads(existing_json) ELSE <<>>,
                              user_message(t, sched[t].k),
                              assistant_message(t, sched[t].k))]
    /\ UNCHANGED <<wfVars, exVars, upd, chat_history, chat_log>>

\* save_machine_chat_history(machine_id, json.dumps(messages)); an exception is
\* swallowed
save_machine_chat_history(t) ==
    /\ sched[t].pc = "save_write"
    /\ \E ok \in BOOLEAN :
          IF ok
          THEN /\ chat_history' = [chat_history EXCEPT ![sched[t].machine_id] =
                                      json_dumps(sched[t].messages)]
               /\ chat_log' = [chat_log EXCEPT ![sched[t].machine_id] =
                                  @ \o <<user_message(t, sched[t].k),
                                         assistant_message(t, sched[t].k)>>]
               /\ sched' = [sched EXCEPT ![t].pc = "extract_json"]
          ELSE /\ sched' = [sched EXCEPT ![t].pc = "extract_json", ![t].faults = 1]
               /\ UNCHANGED <<chat_history, chat_log>>
    /\ UNCHANGED <<wfVars, exVars, upd>>

\* json.loads(self._extract_json(response_text)) and the MaintenanceSchedule
extract_json(t) ==
    /\ sched[t].pc = "extract_json"
    /\ \E ok \in BOOLEAN :
          IF ok
          THEN sched' = [sched EXCEPT ![t].pc = "done"]
          ELSE sched' = [sched EXCEPT ![t].pc = "failed", ![t].error = "json.loads",
                                      ![t].faults = 1]
    /\ UNCHANGED <<wfVars, exVars, upd, chat_history, chat_log>>

ChatNext ==
    \E t \in Tasks :
        \/ agent_predict_schedule(t)
        \/ get_machine_chat_history(t)
        \/ agent_run(t)
        \/ save_interaction_history(t)
        \/ save_machine_chat_history(t)
        \/ extract_json(t)

\* the history of an earlier interaction
OldHistory == <<user_message(0, 0), assistant_message(0, 0)>>

\* everything but the tasks' budgets and the stored chat history is at rest
InitChatRest ==
    /\ env = [AZURE_AI_PROJECT_ENDPOINT |-> FALSE, REPAIR_PLANNER_AGENT_URL |-> FALSE]
    /\ request = [r \in Runs |-> DefaultRequest]
    /\ mock = [id \in MachineIds |-> DefaultMock]
    /\ InitRuns
    /\ ExecIdle
    /\ upd = [c \in Callers |-> NoUpdate]
    /\ \E h \in {None, json_dumps(OldHistory), Corrupt} :
          /\ chat_history = [m \in MachineIds |-> IF m = "machine-001" THEN h ELSE None]
          /\ chat_log = [m \in MachineIds |->
                            IF m = "machine-001" /\ h # None /\ is_json(h)
                            THEN json_loads(h) ELSE <<>>]

\* one task calls predict_schedule again and again
InitChat ==
    /\ InitChatRest
    /\ sched = [t \in Tasks |-> [NoPrediction EXCEPT !.budget = IF t = 1 THEN MaxInteractions ELSE 0]]

\* two tasks call predict_schedule at the same time
InitChatTwo ==
    /\ InitChatRest
    /\ sched = [t \in Tasks |-> [NoPrediction EXCEPT !.budget = MaxRaces]]

ChatSpec == InitChat /\ [][ChatNext]_vars

ChatTwoSpec == InitChatTwo /\ [][ChatNext]_vars

----------------------------------------------------------------------------
(* Vocabulary of the properties *)

\* the run has left workflow.run
RunOver(r) == workflow[r].built /\ pc[r] \in {"finally", "serialize", "except", "responded"}

\* how often the run has invoked the executor
Invocations(r, n) == Cardinality({i \in 1..Len(invoked[r]) : invoked[r][i].node = n})

\* the position of the executor's first invocation, 0 if there is none
FirstInvocation(r, n) ==
    IF Invocations(r, n) = 0 THEN 0
    ELSE CHOOSE i \in 1..Len(invoked[r]) :
            /\ invoked[r][i].node = n
            /\ \A j \in 1..(i - 1) : invoked[r][j].node # n

HasOutput(r, n) == \E i \in 1..Len(outputs[r]) : outputs[r][i].executor = n

\* the text holds one of the four keywords, whatever the case of its letters
HasKeyword(text) ==
    \E k \in { <<"c","r","i","t","i","c","a","l">>, <<"w","a","r","n","i","n","g">>,
               <<"h","i","g","h">>, <<"a","l","e","r","t">> } :
        \E i \in 0..Len(text) :
            /\ i + Len(k) <= Len(text)
            /\ \A j \in 1..Len(k) : lower_char(text[i + j]) = k[j]

\* the reply the run's agent gives
ReplyOf(r, n) == mock[request[r].machine_id][n]

\* C3: once a run has left workflow.run with an output of AnomalyAgent, FaultAgent
\* has been invoked exactly once if that output's text holds one of the keywords
\* critical, warning, high, alert in any case, and otherwise it has not been
\* invoked and has no output.
C3_ConditionalGating ==
    \A r \in Runs : \A i \in 1..Len(outputs[r]) :
        (RunOver(r) /\ outputs[r][i].executor = "AnomalyAgent") =>
            IF HasKeyword(outputs[r][i].text)
            THEN Invocations(r, "FaultAgent") = 1
            ELSE Invocations(r, "FaultAgent") = 0 /\ ~HasOutput(r, "FaultAgent")

C3_Witness ==
    /\ pc[1] = "responded"
    /\ outputs[1] # <<>>
    /\ outputs[1][1] = AgentRunResponse("AnomalyAgent", T_CRITICAL)
    /\ Invocations(1, "FaultAgent") = 1
    /\ HasOutput(1, "FaultAgent")

\* C4: a run whose workflow was built answers normally, and every invoked node
\* whose invocation raised has an entry in the outputs and its unconditional
\* successors were invoked.
C4_GracefulDegradation ==
    \A r \in Runs :
        (pc[r] = "responded" /\ workflow[r].built) =>
            /\ http[r].status = 200
            /\ \A i \in 1..Len(invoked[r]) :
                  (invoked[r][i].node \in AgentNodes /\ ReplyOf(r, invoked[r][i].node).raises) =>
                      /\ HasOutput(r, invoked[r][i].node)
                      /\ \A e \in Range(workflow[r].edges) :
                            (e.from = invoked[r][i].node /\ e.condition = "none")
                                => Invocations(r, e.to) = 1

\* the prompt RequestProcessor derives from the request
SeedPrompt(r) ==
    <<"Classify the following anomalies for machine ", request[r].machine_id, ": ",
      request[r].telemetry>>

\* the run of the three-node graph in which the classification holds "alert"
AlertRun(r) ==
    /\ pc[r] = "responded"
    /\ ~env.REPAIR_PLANNER_AGENT_URL
    /\ env.AZURE_AI_PROJECT_ENDPOINT
    /\ ~ReplyOf(r, "AnomalyAgent").raises
    /\ contains(lower(ReplyOf(r, "AnomalyAgent").text), <<"a","l","e","r","t">>)
    /\ ~ReplyOf(r, "FaultAgent").raises

C6_DiscoveryFailsEarly ==
    \A r \in Runs :
        discovery[r] = "failed" =>
            /\ ~workflow[r].built
            /\ invoked[r] = <<>>
            /\ pending[r] = <<>>
            /\ outputs[r] = <<>>
            /\ raised[r] \in CardFailures
            /\ pc[r] \in {"finally", "except", "responded"}
            /\ pc[r] = "responded" => http[r].status = 500

C6_Witness == discovery[1] = "failed" /\ pc[1] = "responded" /\ http[1].status = 500

\* every edge of the graph names a registered node and a start node is set
Integrity(g) ==
    /\ g.start # NoStart
    /\ \E i \in 1..Len(g.executors) : g.executors[i] = g.start
    /\ \A i \in 1..Len(g.edges) :
          /\ \E j \in 1..Len(g.executors) : g.executors[j] = g.edges[i].from
          /\ \E j \in 1..Len(g.executors) : g.executors[j] = g.edges[i].to

C8_Termination ==
    /\ [](\A r \in Runs :
            /\ \A n \in Range(builder[r].executors) : Invocations(r, n) <= 1
            /\ Len(invoked[r]) <= Len(builder[r].executors)
            /\ RunOver(r) => pending[r] = <<>>)
    /\ [][\A r \in Runs :
            (pc[r] = "running" /\ pending[r] = <<>>) => pc'[r] \in {"running", "finally"}]_vars
    /\ [][\A r \in Runs :
            (pc[r] = "running" /\ pc'[r] = "finally" /\ raised'[r] = "") => pending[r] = <<>>]_vars
    /\ (pc[1] = "require_env") ~> (pc[1] = "responded")
    /\ (pc[1] = "running") ~> RunOver(1)
    /\ (pc[1] = "running" /\ \A n \in AgentNodes : ~ReplyOf(1, n).raises)
          ~> (pc[1] = "responded" /\ http[1].status = 200 /\ pending[1] = <<>>)

C8_Witness ==
    /\ pc[1] = "responded"
    /\ http[1].status = 200
    /\ env.REPAIR_PLANNER_AGENT_URL
    /\ Len(invoked[1]) = 4
    /\ pending[1] = <<>>

\* C9: the outputs are in the order of their nodes' first invocations, and
\* "results" holds one text per output in that same order.
C9_OutputOrder ==
    \A r \in Runs :
        /\ \A i, j \in 1..Len(outputs[r]) :
              i < j => /\ FirstInvocation(r, outputs[r][i].executor) > 0
                       /\ FirstInvocation(r, outputs[r][i].executor)
                              < FirstInvocation(r, outputs[r][j].executor)
        /\ (pc[r] = "responded" /\ http[r].status = 200) =>
              /\ Len(http[r].results) = Len(outputs[r])
              /\ \A i \in 1..Len(outputs[r]) : http[r].results[i] = outputs[r][i].text

C9_Witness ==
    /\ pc[1] = "responded"
    /\ http[1].status = 200
    /\ Len(http[1].results) = 3
    /\ http[1].results[1] # http[1].results[3]

----------------------------------------------------------------------------
(* The A2A executors: properties *)

\* the text of the only part of an enqueued message
TextOf(m) == m.parts[1].root.text

\* C1: until execute returns nothing is enqueued; when it has returned, on
\* whatever path, exactly one Message is on the event queue, with role "agent",
\* one part, a text part, and a message id that was not in use before.
C1_ExactlyOneResponse ==
    /\ [](/\ ex_pc \notin {"idle", "returned"} => event_queue = <<>>
          /\ ex_pc = "returned" =>
                /\ Len(event_queue) = 1
                /\ event_queue[1].role = "agent"
                /\ Len(event_queue[1].parts) = 1
                /\ hasattr(event_queue[1].parts[1].root, "text")
                /\ TextOf(event_queue[1]) = response_text
                /\ response_text # <<>>)
    /\ [][(ex_pc # "returned" /\ ex_pc' = "returned") =>
            /\ Len(event_queue') = 1
            /\ event_queue'[1].messageId \notin uuids
            /\ event_queue'[1].messageId \in uuids']_vars

C1_Witness ==
    /\ ex_pc = "returned"
    /\ Len(event_queue) = 1
    /\ exception = not_found(WO_AB1)
    /\ executor = "PartsOrderingExecutor"

\* C2: an exception raised inside execute never leaves it: execute goes on to
\* respond and return, and the response text begins with "Error processing" and
\* holds the exception's description.
C2_ExceptionBecomesResponse ==
    /\ exception # <<>> => ex_pc \in {"except", "respond", "returned"}
    /\ (exception # <<>> /\ ex_pc = "returned") =>
          /\ Len(event_queue) = 1
          /\ Len(TextOf(event_queue[1])) >= 2
          /\ TextOf(event_queue[1])[1] = "Error"
          /\ TextOf(event_queue[1])[2] = " processing"
          /\ contains(TextOf(event_queue[1]), exception)

C2_Witness ==
    /\ ex_pc = "returned"
    /\ exception = cosmos_error
    /\ executor = "MaintenanceSchedulerExecutor"
    /\ "save_maintenance_schedule" \in calls

----------------------------------------------------------------------------
(* Cancellation, discovery, error texts, isolation, hard failures *)

\* C11: once cancel has been called on the executor, execute schedules nothing
\* more (it makes no further service or agent call and writes nothing more to
\* the database), and what was enqueued before stays enqueued.
C11_CooperativeCancel ==
    [][cancel_requested =>
          /\ calls' = calls
          /\ db' = db
          /\ Len(event_queue') >= Len(event_queue)
          /\ SubSeq(event_queue', 1, Len(event_queue)) = event_queue]_vars

\* C12: a run requests the agent card at most once, and not at all without a
\* repair planner URL; no invocation of a node requests it; every invocation
\* of RepairPlannerAgent uses the agent that get_a2a_agent returned, which is
\* bound to the card whenever the card was fetched.
C12_CardFetchedOnce ==
    /\ [](\A r \in Runs :
            /\ a2a[r].card_requests <= 1
            /\ ~env.REPAIR_PLANNER_AGENT_URL => a2a[r].card_requests = 0
            /\ discovery[r] = "fetched" => a2a[r].agent = "card-bound"
            /\ \A i \in 1..Len(a2a[r].invocations) :
                  a2a[r].invocations[i] = a2a[r].agent /\ a2a[r].agent # "none"
            /\ Len(a2a[r].invocations) = Invocations(r, "RepairPlannerAgent"))
    /\ [][\A r \in Runs :
            pc[r] = "running" => a2a'[r].card_requests = a2a[r].card_requests]_vars

C12_Witness ==
    /\ pc[1] = "responded"
    /\ a2a[1] = [card_requests |-> 1, agent |-> "card-bound", invocations |-> <<"card-bound">>]
    /\ Invocations(1, "RepairPlannerAgent") = 1

\* C13: the condition is evaluated on the text AnomalyAgent produced, the text
\* of its failure included: once the run has left workflow.run, FaultAgent has
\* been invoked exactly once if that text holds a keyword and not at all
\* otherwise, whether AnomalyAgent replied or failed.
C13_ErrorTextGating ==
    \A r \in Runs :
        (RunOver(r) /\ Invocations(r, "AnomalyAgent") = 1) =>
            IF HasKeyword(ReplyOf(r, "AnomalyAgent").text)
            THEN Invocations(r, "FaultAgent") = 1
            ELSE Invocations(r, "FaultAgent") = 0

\* C14: once execute has read its input, input_text is the text of the last
\* part that has a text, parts without one being skipped, and it is empty
\* when no part has one, the message has no parts or there is no message.
C14_LastTextPart ==
    (ex_pc \notin {"idle", "start"}) =>
        LET ps == IF message.is_none THEN <<>> ELSE message.parts
            carries(i) == "text" \in DOMAIN ps[i].root
        IN  IF \E i \in 1..Len(ps) : carries(i)
            THEN \E i \in 1..Len(ps) :
                    /\ carries(i)
                    /\ \A j \in (i + 1)..Len(ps) : ~carries(j)
                    /\ input_text = ps[i].root.text
            ELSE input_text = <<>>

C14_Witness ==
    /\ ex_pc = "returned"
    /\ ~message.is_none
    /\ message.parts = <<TextPart(I_PLAIN), TextPart(I_UPPER)>>
    /\ input_text = I_UPPER

RECURSIVE drain(_, _, _, _)
\* the outputs of a run on its own: the queue is worked off from the front
drain(wf, req, queue, outs) ==
    IF queue = <<>> THEN outs
    ELSE LET item == Head(queue)
         IN  IF item.node = "RequestProcessor"
             THEN drain(wf, req,
                        Tail(queue) \o deliveries(wf, item.node, StrMessage(process(item.msg))),
                        outs)
             ELSE LET reply == mock[req.machine_id][item.node]
                  IN  IF reply.raises THEN outs
                      ELSE drain(wf, req,
                                 Tail(queue) \o deliveries(wf, item.node,
                                                           AgentExecutorResponse(reply.text)),
                                 IF item.node \in wf.output_response
                                 THEN Append(outs, AgentRunResponse(item.node, reply.text))
                                 ELSE outs)

\* what the run would output with no other run beside it
AloneOutputs(r) ==
    drain(workflow[r], request[r],
          <<[node |-> workflow[r].start, msg |-> RunInput(request[r])]>>, <<>>)

\* C15: with two runs interleaved in any way, the outputs of each run are at
\* every moment a prefix of the outputs it would produce alone, they are
\* exactly those once it has left workflow.run, and its answer holds their
\* texts: nothing of the other run is among them.
C15_RunIsolation ==
    \A r \in Runs :
        workflow[r].built =>
            /\ Len(outputs[r]) <= Len(AloneOutputs(r))
            /\ outputs[r] = SubSeq(AloneOutputs(r), 1, Len(outputs[r]))
            /\ RunOver(r) => outputs[r] = AloneOutputs(r)
            /\ (pc[r] = "responded" /\ http[r].status = 200) =>
                  http[r].results = [i \in 1..Len(AloneOutputs(r)) |-> AloneOutputs(r)[i].text]

C15_Witness ==
    /\ request[1].machine_id # request[2].machine_id
    /\ pc[1] = "running" /\ pc[2] = "running"
    /\ Len(outputs[1]) = 1 /\ Len(outputs[2]) = 2
    /\ outputs[1][1].text # outputs[2][1].text

\* the failures of construction and discovery
HardFailures ==
    {"Missing required environment variable", "invalid workflow graph",
     "A2A support requires the 'agent-framework-a2a' package"} \cup CardFailures

\* C16: run_factory_workflow raises only for a missing environment variable,
\* a graph that cannot be built or an agent card that cannot be discovered;
\* analyze_machine answers 500 with an error in those cases only and with the
\* results in every other case.
C16_OnlyHardFailures ==
    \A r \in Runs :
        /\ raised[r] # "" => raised[r] \in HardFailures
        /\ pc[r] = "responded" =>
              IF raised[r] \in HardFailures
              THEN http[r].status = 500 /\ http[r].error = raised[r]
              ELSE http[r].status = 200 /\ http[r].error = ""

----------------------------------------------------------------------------
(* The Cosmos DB service: properties *)

\* a field of an item as a reader sees it
FieldOf(item, key, default) == IF key \in DOMAIN item THEN item[key] ELSE default

\* the instant an item was created, if its createdAt names one
CreationTime(item) ==
    IF "createdAt" \in DOMAIN item /\ "iso" \in DOMAIN item.createdAt
       /\ item.createdAt.iso \in {"Z", "+00:00"}
    THEN <<item.createdAt.instant>>
    ELSE <<>>

\* the required parts of an item as a reader sees them
PartsOf(item) ==
    LET ps == FieldOf(item, "requiredParts", <<>>)
    IN  [i \in 1..Len(ps) |->
            <<FieldOf(ps[i], "partNumber", ""), FieldOf(ps[i], "partName", ""),
              FieldOf(ps[i], "quantity", 0), FieldOf(ps[i], "isAvailable", FALSE)>>]

\* the two items differ in nothing but their status
SameButStatus(old, new) ==
    /\ new.id = old.id
    /\ FieldOf(new, "machineId", "") = FieldOf(old, "machineId", "")
    /\ FieldOf(new, "faultType", "") = FieldOf(old, "faultType", "")
    /\ FieldOf(new, "priority", "") = FieldOf(old, "priority", "")
    /\ FieldOf(new, "assignedTechnician", "") = FieldOf(old, "assignedTechnician", "")
    /\ PartsOf(new) = PartsOf(old)
    /\ FieldOf(new, "estimatedDuration", 0) = FieldOf(old, "estimatedDuration", 0)
    /\ CreationTime(new) = CreationTime(old)

C18_WorkOrderSurvives ==
    \A c \in Callers :
        upd[c].pc \in {"done", "failed"} =>
            /\ \A old \in upd[c].before : \E item \in db.WorkOrders : item.id = old.id
            /\ upd[c].error \in {"not_found", "delete_not_found"} =>
                  ~\E old \in upd[c].before : old.id = upd[c].id

\* the messages of the stored history of a machine, none if there is no history
Stored(m) ==
    IF chat_history[m] # None /\ "json" \in DOMAIN chat_history[m]
    THEN chat_history[m].json
    ELSE <<>>

\* is the sequence the end of the other
IsSuffix(tail, all) ==
    /\ Len(tail) <= Len(all)
    /\ \A i \in 1..Len(tail) : tail[i] = all[Len(all) - Len(tail) + i]

\* C19: the stored history of a machine holds at most 10 messages, and they
\* are the most recently saved ones in their order; when a save succeeds, the
\* last two entries of the stored history are the prompt and the response of
\* that interaction; a failure while saving does not fail predict_schedule.
C19_BoundedChatHistory ==
    /\ [](\A m \in MachineIds :
            /\ Len(Stored(m)) <= 10
            /\ IsSuffix(Stored(m), chat_log[m]))
    /\ [][\A t \in Tasks :
            (sched[t].pc = "save_write" /\ chat_history' # chat_history) =>
                LET h == Stored(sched[t].machine_id)'
                IN  /\ Len(h) >= 2 /\ Len(h) <= 10
                    /\ h[Len(h) - 1] = [role |-> "user", content |-> <<"context", t, sched[t].k>>]
                    /\ h[Len(h)] = [role |-> "assistant",
                                    content |-> <<"response", t, sched[t].k>>]]_vars
    /\ [][\A t \in Tasks :
            sched[t].pc \in {"save_read", "save_write"} =>
                sched'[t].pc \in {"save_read", "save_write", "extract_json"}]_vars

C19_Witness ==
    /\ Len(Stored("machine-001")) = 10
    /\ Len(chat_log["machine-001"]) = 12
    /\ sched[1].pc = "done"
    /\ Stored("machine-001")[10] = [role |-> "assistant", content |-> <<"response", 1, 6>>]

\* C20: when no predict_schedule call is in progress and none met a failure,
\* the stored history of a machine holds the prompt and the response of every
\* interaction about that machine, as long as they are no more than 10
\* messages.
C20_NoLostInteraction ==
    (\A t \in Tasks : sched[t].pc \in {"idle", "done"} /\ sched[t].faults = 0) =>
        \A m \in MachineIds :
            Len(chat_log[m]) <= 10 =>
                \A i \in 1..Len(chat_log[m]) :
                    \E j \in 1..Len(Stored(m)) : Stored(m)[j] = chat_log[m][i]

\* ---------------------------------------------------------------------------
\* What a response of execute says about the database

\* execute has returned and this is the first segment of the text it enqueued
Responded(head) ==
    /\ ex_pc = "returned"
    /\ Len(event_queue) >= 1
    /\ TextOf(event_queue[Len(event_queue)])[1] = head

\* the statuses under which the work order execute read is stored
StoredStatuses == {item.status : item \in query_work_orders(db.WorkOrders, work_order.id)}

\* C21: a success response implies the persisted state. "Parts Order Generated"
\* is returned only after the order was saved and the work order's status set
\* to "PartsOrdered"; "All required parts are available in stock" only after
\* the status was set to "Ready"; "Maintenance Schedule Created" only after
\* the schedule was saved, and the maintenance executor never changes a work
\* order.
C21_SuccessImpliesPersisted ==
    /\ [](Responded("Parts Order Generated") =>
            /\ \E order \in db.PartsOrders : order.workOrderId = work_order.id
            /\ StoredStatuses = {"PartsOrdered"})
    /\ [](Responded("All required parts are available in stock") =>
            StoredStatuses = {"Ready"})
    /\ [](Responded("Maintenance Schedule Created") =>
            \E schedule \in db.MaintenanceSchedules : schedule.workOrderId = work_order.id)
    /\ [][executor = "MaintenanceSchedulerExecutor" => db'.WorkOrders = db.WorkOrders]_vars

C21_Witness ==
    /\ Responded("Parts Order Generated")
    /\ executor = "PartsOrderingExecutor"
    /\ db.PartsOrders = {[id |-> "PO-1", workOrderId |-> WO_468]}
    /\ StoredStatuses = {"PartsOrdered"}

\* C22: an error response of the parts-ordering executor implies that nothing
\* was persisted: no parts order is stored and the work order it read is stored
\* as it was read.
C22_ErrorImpliesNothingPersisted ==
    (executor = "PartsOrderingExecutor" /\ Responded("Error")) =>
        /\ db.PartsOrders = {}
        /\ work_order # NoWorkOrder =>
              \E item \in db.WorkOrders : work_order_of_item(item) = work_order

\* one of the four values execute needs is not in the environment
EnvMissing ==
    \/ ~os_environ.COSMOS_ENDPOINT
    \/ ~os_environ.COSMOS_KEY
    \/ ~os_environ.COSMOS_DATABASE_NAME /\ ~os_environ.COSMOS_DATABASE
    \/ ~os_environ.AI_FOUNDRY_PROJECT_ENDPOINT /\ ~os_environ.AZURE_AI_PROJECT_ENDPOINT

\* C23: when the Cosmos endpoint, the key, the database name or the project
\* endpoint is missing, the response is "Error: Missing required environment
\* variables for <agent name>", and the database is neither read nor written
\* and no agent is called.
C23_MissingEnvironment ==
    /\ [](EnvMissing /\ ex_pc = "returned" =>
            /\ Len(event_queue) = 1
            /\ TextOf(event_queue[1]) =
                  <<"Error", ": Missing required environment variables for ",
                    IF executor = "PartsOrderingExecutor" THEN "PartsOrderingAgent"
                    ELSE "MaintenanceSchedulerAgent">>
            /\ calls = {})
    /\ [][EnvMissing => calls' = calls /\ db' = db /\ chat_history' = chat_history]_vars

C23_Witness ==
    /\ os_environ = [n \in EnvNames |-> n # "COSMOS_KEY"]
    /\ executor = "PartsOrderingExecutor"
    /\ Responded("Error")
    /\ input_text = I_PLAIN

\* ---------------------------------------------------------------------------
\* The work order execute looks up

\* text is wo-<4 digits>-<1 or more hexadecimal digits>, in either case
IsWorkOrderId(text) ==
    /\ Len(text) >= 9
    /\ text[1] \in {"w", "W"}
    /\ text[2] \in {"o", "O"}
    /\ text[3] = "-"
    /\ \A k \in 4..7 : text[k] \in {"0","1","2","3","4","5","6","7","8","9"}
    /\ text[8] = "-"
    /\ \A k \in 9..Len(text) :
          text[k] \in {"0","1","2","3","4","5","6","7","8","9",
                       "a","b","c","d","e","f","A","B","C","D","E","F"}

\* the substrings of text that are work order ids, as <<first, last>>
IdSpans(text) ==
    {span \in (1..Len(text)) \X (1..Len(text)) :
        span[1] <= span[2] /\ IsWorkOrderId(SubSeq(text, span[1], span[2]))}

\* the first of them: none begins before it and none beginning with it is longer
FirstId(text) ==
    LET span == CHOOSE span \in IdSpans(text) :
                    \A other \in IdSpans(text) :
                        \/ span[1] < other[1]
                        \/ span[1] = other[1] /\ span[2] >= other[2]
    IN  SubSeq(text, span[1], span[2])

\* C24: the work order looked up is the first substring of the input text that
\* matches wo-<4 digits>-<1 or more hex digits>, case-insensitively; when the
\* text is empty or has no match it is the fallback "wo-2024-468", so that the
\* lookup is always made with a non-empty id.
C24_LookedUpId ==
    [][ex_pc = "get_work_order" /\ ex_pc' # "get_work_order" =>
          /\ work_order_id' = IF IdSpans(input_text) = {}
                              THEN <<"w","o","-","2","0","2","4","-","4","6","8">>
                              ELSE FirstId(input_text)
          /\ work_order_id' # <<>>
          /\ work_order' # NoWorkOrder => work_order'.id = work_order_id'
          /\ "get_work_order" \in calls']_vars

C24_Witness ==
    /\ input_text = WO_468 \o <<" ">> \o I_UPPER
    /\ work_order_id = WO_468
    /\ work_order # NoWorkOrder
    /\ work_order.id = WO_468

\* C25: the id an executor falls back to is the id the challenge-3 program of
\* its agent uses when it is started without an argument:
\* maintenance_scheduler_agent.main for MaintenanceSchedulerExecutor and
\* parts_ordering_agent.main for PartsOrderingExecutor.
C25_FallbackMatchesMain ==
    ("get_work_order" \in calls /\ IdSpans(input_text) = {}) =>
        work_order_id = IF executor = "MaintenanceSchedulerExecutor"
                        THEN maintenance_scheduler_main_work_order_id(<<"maintenance_scheduler_agent.py">>)
                        ELSE parts_ordering_main_work_order_id(<<"parts_ordering_agent.py">>)

\* ---------------------------------------------------------------------------
\* The order in which a run invokes the nodes

\* the run invoked node a and, later, node b
InvokedBefore(r, a, b) ==
    \E i, j \in 1..Len(invoked[r]) :
        i < j /\ invoked[r][i].node = a /\ invoked[r][j].node = b

\* C26: within one run AnomalyAgent is invoked exactly once, after
\* RequestProcessor and with its prompt; FaultAgent is invoked only after
\* AnomalyAgent has produced its result; RepairPlannerAgent is invoked only when
\* REPAIR_PLANNER_AGENT_URL is set and only after FaultAgent has produced a
\* result, never in a run whose condition is false; no node is invoked more than
\* once.
C26_InvocationOrder ==
    \A r \in Runs :
        /\ \A i, j \in 1..Len(invoked[r]) : invoked[r][i].node = invoked[r][j].node => i = j
        /\ RunOver(r) =>
              \E i \in 1..Len(invoked[r]) :
                  invoked[r][i] = [node |-> "AnomalyAgent", msg |-> StrMessage(SeedPrompt(r))]
        /\ (\E i \in 1..Len(invoked[r]) : invoked[r][i].node = "AnomalyAgent") =>
              InvokedBefore(r, "RequestProcessor", "AnomalyAgent")
        /\ (\E i \in 1..Len(invoked[r]) : invoked[r][i].node = "FaultAgent") =>
              /\ InvokedBefore(r, "AnomalyAgent", "FaultAgent")
              /\ ~ReplyOf(r, "AnomalyAgent").raises
        /\ (\E i \in 1..Len(invoked[r]) : invoked[r][i].node = "RepairPlannerAgent") =>
              /\ env.REPAIR_PLANNER_AGENT_URL
              /\ InvokedBefore(r, "FaultAgent", "RepairPlannerAgent")
              /\ ~ReplyOf(r, "FaultAgent").raises
              /\ HasKeyword(ReplyOf(r, "AnomalyAgent").text)

C26_Witness ==
    /\ pc[1] = "responded"
    /\ env.REPAIR_PLANNER_AGENT_URL
    /\ Len(invoked[1]) = 4
    /\ invoked[1][2].node = "AnomalyAgent"
    /\ invoked[1][3].node = "FaultAgent"
    /\ invoked[1][4].node = "RepairPlannerAgent"

====
